---- MODULE Spec2Model ----
(***************************************************************************)
(* A model of the itscope client: the batcher (createQueryStrings), the    *)
(* rate-limited retrying query executor (GetProductsFromQuery and          *)
(* GetAllProductTypes of the limiter variant), and the two fan-out         *)
(* aggregators (GetProductAccessoriesFromList, sequential over the         *)
(* retrying executor, and bounded-concurrent over the single-shot          *)
(* executor).                                                              *)
(*                                                                         *)
(* Strings are modelled as sequences of tokens: the query "id=a;id=b" is   *)
(* <<"id=", "a", ";id=", "b">>.                                             *)
(***************************************************************************)
EXTENDS Integers, Sequences, FiniteSets, TLC

\* ------------------------------------------------------------------ bounds

\* Longest identifier list handed to the batcher on its own.
MaxLen == 4

\* Largest batch length handed to the batcher on its own.
MaxBatch == 3

\* The identifiers the batcher's inputs are drawn from (duplicates allowed).
Ids == {"a", "b"}

\* ----------------------------------------------------------------- batcher

VARIABLES
    productIDs,     \* createQueryStrings: the identifier list
    length,         \* createQueryStrings: the batch length
    requestQuerys,  \* createQueryStrings: the returned query strings
    bpc             \* "input" before the call, "done" after it

batchVars == <<productIDs, length, requestQuerys, bpc>>

\* All sequences over S of length at most n.
SeqsUpTo(S, n) == UNION {[1..k -> S] : k \in 0..n}

\* A variant of Pages that forgets the remainder chunk.
PagesNoRemainder(n, len) == n \div len

\* pages := int(len(productIDs) / length), plus one when a remainder is left.
Pages(n, len) ==
    IF n % len > 0 THEN (n \div len) + 1 ELSE n \div len

\* Go's s[start:end] (0-based, half-open).
Slice(s, start, end) == SubSeq(s, start + 1, end)

\* strings.Join(slice, sep), as a token sequence.
RECURSIVE Join(_, _)
Join(slice, sep) ==
    IF Len(slice) = 0 THEN <<>>
    ELSE IF Len(slice) = 1 THEN <<slice[1]>>
    ELSE <<slice[1], sep>> \o Join(Tail(slice), sep)

\* "id=" + strings.Join(slice, ";id=")
QueryOf(slice) == <<"id=">> \o Join(slice, ";id=")

\* A variant of createQueryLoop that puts each group in front of the groups
\* built so far, so that the groups come out in input order.
RECURSIVE createQueryLoopPrepend(_, _, _, _, _)
createQueryLoopPrepend(ids, len, pages, i, acc) ==
    IF i > 0
    THEN LET start == (i - 1) * len
             end   == i * len
             slice == IF i = pages
                      THEN Slice(ids, start, Len(ids))
                      ELSE Slice(ids, start, end)
         IN  createQueryLoopPrepend(ids, len, pages, i - 1, <<QueryOf(slice)>> \o acc)
    ELSE acc

\* The loop of createQueryStrings, from page i down to page 1.
RECURSIVE createQueryLoop(_, _, _, _, _)
createQueryLoop(ids, len, pages, i, acc) ==
    IF i > 0
    THEN LET start == (i - 1) * len
             end   == i * len
             slice == IF i = pages
                      THEN Slice(ids, start, Len(ids))
                      ELSE Slice(ids, start, end)
         IN  createQueryLoop(ids, len, pages, i - 1, Append(acc, QueryOf(slice)))
    ELSE acc

createQueryStrings(ids, len) ==
    LET pages == Pages(Len(ids), len)
    IN  createQueryLoop(ids, len, pages, pages, <<>>)

\* The identifiers a query string names: the tokens after "id=" and ";id=".
IdsOfQuery(q) == [k \in 1..(Len(q) \div 2) |-> q[2 * k]]

CallCreateQueryStrings ==
    /\ bpc = "input"
    /\ requestQuerys' = createQueryStrings(productIDs, length)
    /\ bpc' = "done"
    /\ UNCHANGED <<productIDs, length>>


\* ------------------------------------------------- client, limiter, executor

\* rate.NewLimiter(rate.Limit(6), 6): the bucket's capacity (its burst).
Burst == 6

\* retries := 3
InitialRetries == 3

\* Requests after which no further request is sent (caps the counters).
MaxRequests == 12

\* Token refills after which the bucket is no longer refilled.
MaxRefills == 6

\* The concurrent callers of one client.
Callers == {"c1", "c2"}

\* The decoded product lists a 200 response may carry.
Payloads == {<<"X">>, <<"X", "Y">>}

VARIABLES
    username,       \* its.username
    password,       \* its.password
    tokens,         \* its.limiter: tokens in the bucket
    refills,        \* tokens put back into the bucket so far
    requestsSent,   \* requests sent over the network so far, by all callers
    inv             \* per caller: its current executor invocation

clientVars == <<username, password, tokens, refills, requestsSent, inv>>

\* error values; the wrapping text (fmt.Errorf("...: %w", err)) keeps the type.
NoError == [type |-> "nil", status |-> 0]
MissingCredentials == [type |-> "MissingCredentials", status |-> 0]
LimiterTimeout == [type |-> "LimiterTimeout", status |-> 0]
TransportError == [type |-> "Transport", status |-> 0]
DecodeError == [type |-> "Decode", status |-> 0]

\* UnexpectedStatusCodeError{StatusCode: response.StatusCode, ...}
NewUnexpectedStatusCodeError(response) ==
    [type |-> "UnexpectedStatusCode", status |-> response.status]

StatusOK == 200
StatusNotFound == 404

\* response bodies: JSON that decodes to a list, or bytes that do not decode
NoBody == [valid |-> FALSE, list |-> <<>>]
OkBodies == {[valid |-> TRUE, list |-> l] : l \in Payloads}

\* a nil *http.Response
NilResponse == [status |-> 0, body |-> NoBody]

\* client.Do failing without a response (a cancelled context, a network error)
TransportFailure == [err |-> TRUE, status |-> 0, body |-> NoBody]

\* what one its.client.Do(request) can yield: a transport error, or a response
Outcomes ==
    {TransportFailure}
    \cup {[err |-> FALSE, status |-> s, body |-> NoBody] : s \in {StatusNotFound, 500, 503}}
    \cup {[err |-> FALSE, status |-> StatusOK, body |-> b] : b \in OkBodies \cup {NoBody}}

\* returned values: a nil pointer or slice, or a (possibly empty) list
NilValue == [isNil |-> TRUE, list |-> <<>>]
ValueOf(l) == [isNil |-> FALSE, list |-> l]

Return(v, e) == [value |-> v, err |-> e]

\* an invocation that has not been made
IdleInvocation ==
    [kind |-> "none", pc |-> "idle", retries |-> 0, err |-> NoError,
     response |-> NilResponse, ctxDone |-> FALSE, ret |-> Return(NilValue, NoError),
     sent |-> 0, acquired |-> 0, failures |-> 0, sleeps |-> 0,
     opened |-> 0, closed |-> 0, lastStatus |-> 0]

\* A variant of authenticateRequest that checks the username alone.
authenticateRequestUserOnly(user, pass) ==
    IF user = "" THEN MissingCredentials ELSE NoError

\* if its.username == "" || its.password == "" { return error }
authenticateRequest(user, pass) ==
    IF user = "" \/ pass = "" THEN MissingCredentials ELSE NoError

\* A variant of IsTransient that also retries a 404.
IsTransientRetry404(err, response) ==
    err # NoError \/ response.status # StatusOK

\* err != nil || (StatusCode != http.StatusOK && StatusCode != http.StatusNotFound)
IsTransient(err, response) ==
    err # NoError \/ (response.status # StatusOK /\ response.status # StatusNotFound)

\* json.NewDecoder(response.Body).Decode(&products)
Decode(body) ==
    IF body.valid THEN Return(ValueOf(body.list), NoError)
    ELSE Return(NilValue, DecodeError)

\* A variant of AfterLoop that reports the status error before the transport error.
AfterLoopStatusFirst(i) ==
    IF i.lastStatus # 0 /\ i.lastStatus # StatusOK /\ i.lastStatus # StatusNotFound
    THEN [i EXCEPT !.pc = "done",
                   !.ret = Return(NilValue, [type |-> "UnexpectedStatusCode", status |-> i.lastStatus])]
    ELSE IF i.err # NoError
    THEN [i EXCEPT !.pc = "done", !.ret = Return(NilValue, i.err)]
    ELSE [i EXCEPT !.pc = "done", !.closed = @ + 1, !.ret = Decode(i.response.body)]

\* A variant of AfterLoop that keeps failing once an attempt has failed.
AfterLoopStaleError(i) ==
    IF i.err # NoError \/ i.failures > 0
    THEN [i EXCEPT !.pc = "done", !.ret = Return(NilValue, TransportError)]
    ELSE LET c == [i EXCEPT !.pc = "done", !.closed = @ + 1]
         IN  IF i.response.status = StatusNotFound
             THEN [c EXCEPT !.ret = Return(ValueOf(<<>>), NoError)]
             ELSE IF i.response.status # StatusOK
             THEN [c EXCEPT !.ret = Return(NilValue, NewUnexpectedStatusCodeError(i.response))]
             ELSE [c EXCEPT !.ret = Decode(i.response.body)]

\* The code after the retry loop: the error return, the deferred Close of the
\* response the loop ended with, and the classification of its status.
AfterLoop(i) ==
    IF i.err # NoError
    THEN [i EXCEPT !.pc = "done", !.ret = Return(NilValue, i.err)]
    ELSE LET c == [i EXCEPT !.pc = "done", !.closed = @ + 1]
         IN  IF i.response.status = StatusNotFound
             THEN [c EXCEPT !.ret = Return(ValueOf(<<>>), NoError)]
             ELSE IF i.response.status # StatusOK
             THEN [c EXCEPT !.ret = Return(NilValue, NewUnexpectedStatusCodeError(i.response))]
             ELSE [c EXCEPT !.ret = Decode(i.response.body)]

\* The head of the retry loop: for retries > 0 { ... }
LoopHead(i) ==
    IF i.retries > 0 THEN [i EXCEPT !.pc = "wait"] ELSE AfterLoop(i)

\* GetProductsFromQuery / GetAllProductTypes up to the retry loop: build the
\* request (no I/O), authenticate it, retries := 3.
StartInvocation(k, user, pass) ==
    IF authenticateRequest(user, pass) # NoError
    THEN [IdleInvocation EXCEPT !.kind = k, !.pc = "done",
              !.ret = Return(NilValue, authenticateRequest(user, pass))]
    ELSE LoopHead([IdleInvocation EXCEPT !.kind = k, !.retries = InitialRetries])

\* A caller invokes GetProductsFromQuery ("query") or GetAllProductTypes ("types").
Call(p, k) ==
    /\ inv[p].pc \in {"idle", "done"}
    /\ requestsSent < MaxRequests
    /\ inv' = [inv EXCEPT ![p] = StartInvocation(k, username, password)]
    /\ UNCHANGED <<username, password, tokens, refills, requestsSent>>

\* The context of caller p's invocation is cancelled or expires.
Cancel(p) ==
    /\ inv[p].pc \in {"wait", "do", "sleep"}
    /\ ~inv[p].ctxDone
    /\ inv' = [inv EXCEPT ![p].ctxDone = TRUE]
    /\ UNCHANGED <<username, password, tokens, refills, requestsSent>>

\* The bucket regains one token (1/6 s has passed with the bucket not full).
Refill ==
    /\ tokens < Burst
    /\ refills < MaxRefills
    /\ tokens' = tokens + 1
    /\ refills' = refills + 1
    /\ UNCHANGED <<username, password, requestsSent, inv>>

\* A variant of WaitResult that passes without taking a token.
WaitResultNoToken(i) == [i EXCEPT !.err = NoError, !.pc = "do"]

\* err = its.limiter.Wait(ctx) returning nil: one token is this invocation's.
WaitResult(i) == [i EXCEPT !.err = NoError, !.pc = "do", !.acquired = @ + 1]

\* if err = its.limiter.Wait(ctx); err != nil { return nil, "limiter timeout" }
LimiterWait(p) ==
    /\ inv[p].pc = "wait"
    /\ IF inv[p].ctxDone
       THEN /\ inv' = [inv EXCEPT ![p] = [@ EXCEPT !.pc = "done", !.err = LimiterTimeout,
                                              !.ret = Return(NilValue, LimiterTimeout)]]
            /\ UNCHANGED tokens
       ELSE /\ tokens > 0
            /\ tokens' = tokens - (WaitResult(inv[p]).acquired - inv[p].acquired)
            /\ inv' = [inv EXCEPT ![p] = WaitResult(@)]
    /\ UNCHANGED <<username, password, refills, requestsSent>>

\* A variant of Classify that forgets to decrement the retry counter.
ClassifyNoDecrement(i) ==
    IF IsTransient(i.err, i.response)
    THEN [i EXCEPT !.pc = "sleep", !.failures = @ + 1]
    ELSE AfterLoop(i)

\* The branch after client.Do: a transient failure is counted (GetProductsFromQuery
\* decrements before its sleep, GetAllProductTypes after it) and slept on;
\* anything else breaks out of the loop.
Classify(i) ==
    IF IsTransient(i.err, i.response)
    THEN [i EXCEPT !.pc = "sleep", !.failures = @ + 1,
                   !.retries = IF i.kind = "query" THEN @ - 1 ELSE @]
    ELSE AfterLoop(i)

\* response, err = its.client.Do(request) with outcome o
Received(i, o) ==
    [i EXCEPT !.err = IF o.err THEN TransportError ELSE NoError,
              !.response = IF o.err THEN NilResponse ELSE [status |-> o.status, body |-> o.body],
              !.opened = IF o.err THEN @ ELSE @ + 1,
              !.lastStatus = IF o.err THEN @ ELSE o.status]

\* A variant of Do that sends the request whatever the state of the context.
DoIgnoringContext(p, o) ==
    /\ inv[p].pc = "do"
    /\ requestsSent < MaxRequests
    /\ inv' = [inv EXCEPT ![p] = Classify(Received([@ EXCEPT !.sent = @ + 1], o))]
    /\ requestsSent' = requestsSent + 1
    /\ UNCHANGED <<username, password, tokens, refills>>

\* response, err = its.client.Do(request), then the branch on its outcome.  A
\* request whose context is already done fails without being sent.
Do(p, o) ==
    /\ inv[p].pc = "do"
    /\ IF inv[p].ctxDone
       THEN /\ inv' = [inv EXCEPT ![p] = Classify(Received(@, TransportFailure))]
            /\ UNCHANGED requestsSent
       ELSE /\ requestsSent < MaxRequests
            /\ inv' = [inv EXCEPT ![p] = Classify(Received([@ EXCEPT !.sent = @ + 1], o))]
            /\ requestsSent' = requestsSent + 1
    /\ UNCHANGED <<username, password, tokens, refills>>

\* time.Sleep(4 * time.Second) has ended (GetAllProductTypes decrements its
\* counter here); back to the head of the loop.
AfterSleep(i) ==
    LoopHead([i EXCEPT !.sleeps = @ + 1,
                       !.retries = IF i.kind = "types" THEN @ - 1 ELSE @])

\* time.Sleep(4 * time.Second) ends.
Sleep(p) ==
    /\ inv[p].pc = "sleep"
    /\ inv' = [inv EXCEPT ![p] = AfterSleep(@)]
    /\ UNCHANGED <<username, password, tokens, refills, requestsSent>>

\* ------------------------------------------------------------- aggregators

\* its.createQueryStrings(products, 50)
BatchLength == 50

\* semaphoreChan := make(chan struct{}, 20)
SemCap == 20

\* Most groups an aggregated identifier list splits into.
MaxGroups == 2

\* The identifier lists handed to GetProductAccessoriesFromList: the empty
\* list, and for each number of groups a list that ends a chunk exactly and
\* one that leaves a remainder chunk of one identifier.
AggLengths ==
    {0} \cup {BatchLength * g : g \in 1..MaxGroups}
        \cup {BatchLength * (g - 1) + 1 : g \in 1..MaxGroups}

AggInputs == {[k \in 1..n |-> ToString(k)] : n \in AggLengths}

VARIABLES
    variant,        \* "sequential" (limiter variant) or "concurrent" (errgroup variant)
    products,       \* GetProductAccessoriesFromList: the identifier list
    apc,            \* where the aggregator is: "idle", "loop", "calling", "ret", "done"
    actx,           \* the aggregator's context (gCtx in the concurrent variant) is done
    queryStrings,   \* the groups the batcher returned
    idx,            \* the group the range loop is at
    productList,    \* the result collection
    aggRet,         \* what GetProductAccessoriesFromList returned
    started,        \* the queries handed to GetProductsFromQuery, in order
    sem,            \* len(semaphoreChan)
    semClosed,      \* close(semaphoreChan) has run
    mutex,          \* requestedProductsLock: 0, or the worker holding it
    workers,        \* per group: the worker goroutine started for it
    groupErr,       \* the errgroup's first error
    retList         \* the operand productList of the return statement, once read

aggVars == <<variant, products, apc, actx, queryStrings, idx, productList, aggRet,
             started, sem, semClosed, mutex, workers, groupErr, retList>>

seqVars == <<sem, semClosed, mutex, workers, groupErr, retList>>

\* the return operand productList has not been read yet
Unread == [read |-> FALSE, list |-> <<>>]

\* a worker that has not been started
NoWorker == [pc |-> "none", ret |-> Return(NilValue, NoError)]

\* A variant of EmptyInputResult that treats an empty list as a failure.
EmptyInputIsError(ids) == Return(NilValue, [type |-> "EmptyInput", status |-> 0])

\* if len(products) == 0 { return nil, nil }
EmptyInputResult(ids) == Return(NilValue, NoError)

\* GetProductAccessoriesFromList up to its range loop, in both variants.
AggCall ==
    /\ apc = "idle"
    /\ IF Len(products) = 0
       THEN /\ apc' = "done"
            /\ aggRet' = EmptyInputResult(products)
            /\ UNCHANGED <<queryStrings, idx, workers>>
       ELSE /\ apc' = "loop"
            /\ queryStrings' = createQueryStrings(products, BatchLength)
            /\ idx' = 1
            /\ workers' = IF variant = "concurrent"
                          THEN [w \in 1..Len(createQueryStrings(products, BatchLength)) |-> NoWorker]
                          ELSE workers
            /\ UNCHANGED aggRet
    /\ UNCHANGED <<variant, products, actx, productList, started, sem, semClosed,
                   mutex, groupErr, retList>>
    /\ UNCHANGED <<batchVars, clientVars>>

\* The context handed to GetProductAccessoriesFromList is cancelled or expires.
AggCancel ==
    /\ apc \in {"loop", "calling", "ret"}
    /\ ~actx
    /\ actx' = TRUE
    /\ inv' = IF variant = "sequential" /\ inv["c1"].pc \in {"wait", "do", "sleep"}
              THEN [inv EXCEPT !["c1"].ctxDone = TRUE]
              ELSE inv
    /\ UNCHANGED <<variant, products, apc, queryStrings, idx, productList, aggRet,
                   started, sem, semClosed, mutex, workers, groupErr, retList>>
    /\ UNCHANGED <<batchVars, username, password, tokens, refills, requestsSent>>

\* ---- sequential variant

\* product, err := its.GetProductsFromQuery(ctx, query): the call is made.
SeqInvoke ==
    /\ variant = "sequential"
    /\ apc = "loop"
    /\ apc' = "calling"
    /\ started' = Append(started, queryStrings[idx])
    /\ inv' = [inv EXCEPT !["c1"] =
                  [StartInvocation("query", username, password) EXCEPT !.ctxDone = actx]]
    /\ UNCHANGED <<variant, products, actx, queryStrings, idx, productList, aggRet>>
    /\ UNCHANGED seqVars
    /\ UNCHANGED <<batchVars, username, password, tokens, refills, requestsSent>>

\* A variant of SeqStep that goes on to the next group after an error.
SeqStepContinue(list, r) ==
    IF r.err # NoError
    THEN [exit |-> FALSE, list |-> list, ret |-> Return(NilValue, r.err)]
    ELSE [exit |-> FALSE, list |-> list \o r.value.list,
          ret |-> Return(ValueOf(list \o r.value.list), NoError)]

\* if err != nil { return nil, err }; productList = append(productList, product.Product...)
\* ret is what the function returns if the loop ends here.
SeqStep(list, r) ==
    IF r.err # NoError
    THEN [exit |-> TRUE, list |-> list, ret |-> Return(NilValue, r.err)]
    ELSE [exit |-> FALSE, list |-> list \o r.value.list,
          ret |-> Return(ValueOf(list \o r.value.list), NoError)]

\* GetProductsFromQuery has returned: the error return, or the append and the
\* next turn of the range loop (return productList, nil after the last group).
SeqCollect ==
    /\ variant = "sequential"
    /\ apc = "calling"
    /\ inv["c1"].pc = "done"
    /\ LET step == SeqStep(productList, inv["c1"].ret)
           last == step.exit \/ idx = Len(queryStrings)
       IN  /\ productList' = step.list
           /\ idx' = IF step.exit THEN idx ELSE idx + 1
           /\ apc' = IF last THEN "done" ELSE "loop"
           /\ aggRet' = IF last THEN step.ret ELSE aggRet
    /\ UNCHANGED <<variant, products, actx, queryStrings, started>>
    /\ UNCHANGED seqVars
    /\ UNCHANGED <<batchVars, clientVars>>

\* ---- concurrent variant

\* fmt.Errorf(response.Status)
StatusError(response) == [type |-> "Status", status |-> response.status]

\* GetProductsFromQuery of the errgroup variant: one attempt, no limiter.
\* o is what client.Do yields; the response body is closed on every path.
QueryOnce(user, pass, o) ==
    IF authenticateRequest(user, pass) # NoError
    THEN Return(NilValue, authenticateRequest(user, pass))
    ELSE IF o.err THEN Return(NilValue, TransportError)
    ELSE IF o.status = StatusNotFound THEN Return(ValueOf(<<>>), NoError)
    ELSE IF o.status # StatusOK THEN Return(NilValue, StatusError(o))
    ELSE Decode(o.body)

\* A variant of SlotFree for a channel that never fills.
SlotAlwaysFree(s) == TRUE

\* semaphoreChan <- struct{}{} can proceed: the channel holds fewer than its
\* capacity.
SlotFree(s) == s < SemCap

\* A variant of ReleaseOnError for a worker that keeps its slot when its
\* query fails.
KeepOnError(s) == s

\* The deferred <-semaphoreChan of a worker whose query failed.
ReleaseOnError(s) == s - 1

\* semaphoreChan <- struct{}{}; wg.Go(func() error { ... }): blocks while the
\* channel is full, then starts the worker for the group.
Launch ==
    /\ variant = "concurrent"
    /\ apc = "loop"
    /\ SlotFree(sem)
    /\ sem' = sem + 1
    /\ workers' = [workers EXCEPT ![idx].pc = "run"]
    /\ idx' = idx + 1
    /\ apc' = IF idx = Len(queryStrings) THEN "ret" ELSE "loop"
    /\ UNCHANGED <<variant, products, actx, queryStrings, productList, aggRet, started,
                   semClosed, mutex, groupErr, retList>>
    /\ UNCHANGED <<batchVars, clientVars>>

\* product, err := its.GetProductsFromQuery(gCtx, query) in worker w.  With
\* gCtx done the request fails without being sent.  On an error the worker's
\* function returns it, and its deferred <-semaphoreChan runs.
WorkerQuery(w, o) ==
    /\ variant = "concurrent"
    /\ w \in DOMAIN workers
    /\ workers[w].pc = "run"
    /\ LET sends == authenticateRequest(username, password) = NoError /\ ~actx
           r == QueryOnce(username, password, IF actx THEN TransportFailure ELSE o)
       IN  /\ sends => requestsSent < MaxRequests
           /\ requestsSent' = IF sends THEN requestsSent + 1 ELSE requestsSent
           /\ started' = Append(started, queryStrings[w])
           /\ workers' = [workers EXCEPT ![w] =
                             [pc |-> IF r.err # NoError THEN "exit" ELSE "lock", ret |-> r]]
           /\ sem' = IF r.err # NoError THEN ReleaseOnError(sem) ELSE sem
    /\ UNCHANGED <<variant, products, apc, actx, queryStrings, idx, productList, aggRet,
                   semClosed, mutex, groupErr, retList>>
    /\ UNCHANGED <<batchVars, username, password, tokens, refills, inv>>

\* A variant of WorkerLock that does not wait for the mutex to be free.
WorkerLockNoWait(w) ==
    /\ variant = "concurrent"
    /\ w \in DOMAIN workers
    /\ workers[w].pc = "lock"
    /\ mutex' = w
    /\ workers' = [workers EXCEPT ![w].pc = "append"]
    /\ UNCHANGED <<variant, products, apc, actx, queryStrings, idx, productList, aggRet,
                   started, sem, semClosed, groupErr, retList>>
    /\ UNCHANGED <<batchVars, clientVars>>

\* requestedProductsLock.Lock()
WorkerLock(w) ==
    /\ variant = "concurrent"
    /\ w \in DOMAIN workers
    /\ workers[w].pc = "lock"
    /\ mutex = 0
    /\ mutex' = w
    /\ workers' = [workers EXCEPT ![w].pc = "append"]
    /\ UNCHANGED <<variant, products, apc, actx, queryStrings, idx, productList, aggRet,
                   started, sem, semClosed, groupErr, retList>>
    /\ UNCHANGED <<batchVars, clientVars>>

\* productList = append(productList, product.Product...); return nil, with the
\* deferred Unlock and <-semaphoreChan.
WorkerAppend(w) ==
    /\ variant = "concurrent"
    /\ w \in DOMAIN workers
    /\ workers[w].pc = "append"
    /\ productList' = productList \o workers[w].ret.value.list
    /\ mutex' = 0
    /\ sem' = sem - 1
    /\ workers' = [workers EXCEPT ![w].pc = "exit"]
    /\ UNCHANGED <<variant, products, apc, actx, queryStrings, idx, aggRet,
                   started, semClosed, groupErr, retList>>
    /\ UNCHANGED <<batchVars, clientVars>>

\* errgroup: the worker's function has returned; its first error is kept and
\* cancels gCtx, then the goroutine is done.
WorkerDone(w) ==
    /\ variant = "concurrent"
    /\ w \in DOMAIN workers
    /\ workers[w].pc = "exit"
    /\ workers' = [workers EXCEPT ![w].pc = "done"]
    /\ groupErr' = IF workers[w].ret.err # NoError /\ groupErr = NoError
                   THEN workers[w].ret.err ELSE groupErr
    /\ actx' = (actx \/ workers[w].ret.err # NoError)
    /\ UNCHANGED <<variant, products, apc, queryStrings, idx, productList, aggRet,
                   started, sem, semClosed, mutex, retList>>
    /\ UNCHANGED <<batchVars, clientVars>>

\* return productList, wg.Wait(): Go leaves open whether the operand
\* productList is read before or after the call wg.Wait(); this is the read
\* made before it.
ReadProductList ==
    /\ variant = "concurrent"
    /\ apc = "ret"
    /\ ~retList.read
    /\ retList' = [read |-> TRUE, list |-> productList]
    /\ UNCHANGED <<variant, products, apc, actx, queryStrings, idx, productList, aggRet,
                   started, sem, semClosed, mutex, workers, groupErr>>
    /\ UNCHANGED <<batchVars, clientVars>>

\* return productList, wg.Wait()
ConcResult(list, err) == Return(ValueOf(list), err)

\* A variant of WaitGroupDone that does not wait for the workers.
WaitGroupNoWait(ws) == TRUE

\* wg.Wait() can return: every worker started with wg.Go is done.
WaitGroupDone(ws) == \A w \in DOMAIN ws : ws[w].pc \in {"none", "done"}

\* wg.Wait() returns once every started worker is done; the function returns
\* and the deferred close(semaphoreChan) runs.
WaitReturn ==
    /\ variant = "concurrent"
    /\ apc = "ret"
    /\ WaitGroupDone(workers)
    /\ retList' = IF retList.read THEN retList ELSE [read |-> TRUE, list |-> productList]
    /\ aggRet' = ConcResult(retList'.list, groupErr)
    /\ semClosed' = TRUE
    /\ apc' = "done"
    /\ UNCHANGED <<variant, products, actx, queryStrings, idx, productList,
                   started, sem, mutex, workers, groupErr>>
    /\ UNCHANGED <<batchVars, clientVars>>

\* ---------------------------------------------------- service-type filter

\* Most product types in the catalog and most accessories of a product.
MaxTypes == 2
MaxAccessories == 2

\* Product-type ids (an absent one included), product-type group ids and
\* product ids.
TypeIds == {"", "t1", "t2"}
GroupIds == {"", "SSP", "HW"}
Puids == {"p1", "p2"}

\* ProductType{ID, ProductTypeGroup{ID}} and Product{Puid, ProductTypeID}
ProductTypeRecords == [ID : TypeIds, group : GroupIds]
ProductRecords == [Puid : Puids, ProductTypeID : TypeIds]

VARIABLES
    catalog,        \* what GetAllProductTypes yields when it succeeds
    accessories,    \* what GetProductAccessories yields when it succeeds
    fetchFails,     \* which of the two fetches fails: "none", "types", "accessories"
    fpc,            \* GetServiceTypeAccessoriesOfProduct: "idle" or "done"
    svcRet          \* what GetServiceTypeAccessoriesOfProduct returned

filterVars == <<catalog, accessories, fetchFails, fpc, svcRet>>

\* A variant of FilterProductTypesByGroupId that keeps the types of every group.
FilterProductTypesAnyGroup(groupId, productTypes) == productTypes

\* FilterProductTypesByGroupId: the types of the group, in catalog order.
FilterProductTypesByGroupId(groupId, productTypes) ==
    SelectSeq(productTypes, LAMBDA productType : productType.group = groupId)

\* filteredProducts[product.Puid] = product
MapPut(fm, product) ==
    [x \in DOMAIN fm \cup {product.Puid} |-> IF x = product.Puid THEN product ELSE fm[x]]

\* The inner loop of FilterProductsByTypeList over products[j..], for one type.
RECURSIVE FilterByType(_, _, _, _)
FilterByType(fm, products_, productType, j) ==
    IF j > Len(products_) THEN fm
    ELSE LET product == products_[j]
             keep == /\ product.ProductTypeID = productType.ID
                     /\ product.ProductTypeID # ""
                     /\ productType.group # ""
         IN  FilterByType(IF keep THEN MapPut(fm, product) ELSE fm,
                          products_, productType, j + 1)

\* The outer loop of FilterProductsByTypeList over typeList[k..]: the map
\* filteredProducts, keyed by Puid.
RECURSIVE FilteredProducts(_, _, _, _)
FilteredProducts(fm, products_, typeList, k) ==
    IF k > Len(typeList) THEN fm
    ELSE FilteredProducts(FilterByType(fm, products_, typeList[k], 1),
                          products_, typeList, k + 1)

\* The arrays a range over the map can fill: its values, in any order.
MapOrders(fm) ==
    {s \in [1..Cardinality(DOMAIN fm) -> DOMAIN fm] :
        \A x \in DOMAIN fm : \E k \in DOMAIN s : s[k] = x}

\* FilterProductsByTypeList: the arrays it can return.
FilterProductsByTypeList(products_, typeList) ==
    LET fm == FilteredProducts(<<>>, products_, typeList, 1)
    IN  {[k \in DOMAIN s |-> fm[s[k]]] : s \in MapOrders(fm)}

\* The error a failed fetch yields, wrapped by the caller.
FetchError == [type |-> "Fetch", status |-> 0]

\* GetServiceTypeAccessoriesOfProduct, from its two fetches to its return.
CallGetServiceTypeAccessories ==
    /\ fpc = "idle"
    /\ fpc' = "done"
    /\ IF fetchFails # "none"
       THEN svcRet' = Return(NilValue, FetchError)
       ELSE \E list \in FilterProductsByTypeList(
                            accessories, FilterProductTypesByGroupId("SSP", catalog)) :
                svcRet' = Return(ValueOf(list), NoError)
    /\ UNCHANGED <<catalog, accessories, fetchFails>>

\* ------------------------------------------- concurrent aggregator, counted

\* The errgroup variant of GetProductAccessoriesFromList once more, with its
\* workers counted by the place they are at in their function instead of
\* identified by their group: the semaphore, the mutex, the errgroup and the
\* launch loop are as above, the records themselves are left out.  This lets
\* the number of groups exceed the capacity of semaphoreChan.

\* Most groups of a counted call.
MaxPoolGroups == 21

\* The numbers of groups of the counted calls: none, one, and more than the
\* semaphore has slots.
PoolGroupCounts == {0, 1, MaxPoolGroups}

\* The numbers of identifiers that give these numbers of groups.
PoolLengths == {BatchLength * g : g \in PoolGroupCounts}

\* What the counted workers' requests are answered: not found (an empty
\* container, no error) or a server error.
PoolOutcomes == {o \in Outcomes : ~o.err /\ o.status \in {StatusNotFound, 500}}

VARIABLES
    poolN,          \* len(products) of the counted call
    pool            \* the counted call: see IdlePool

poolVars == <<poolN, pool>>

\* The counted call before it is made.
IdlePool ==
    [pc       |-> "idle",   \* "idle", "loop", "ret", "done"
     groups   |-> 0,        \* len(queryStrings)
     launched |-> 0,        \* groups the range loop has started a worker for
     sem      |-> 0,        \* len(semaphoreChan)
     run      |-> 0,        \* workers in GetProductsFromQuery
     lock     |-> 0,        \* workers at requestedProductsLock.Lock()
     append   |-> 0,        \* workers holding the mutex
     exitErr  |-> 0,        \* workers whose function returned an error
     done     |-> 0,        \* workers the errgroup has counted as done
     ctx      |-> FALSE,    \* the errgroup holds an error and gCtx is done
     closed   |-> FALSE]    \* close(semaphoreChan) has run

\* GetProductAccessoriesFromList up to its range loop.
PoolCall ==
    /\ pool.pc = "idle"
    /\ pool' = IF poolN = 0
               THEN [pool EXCEPT !.pc = "done"]
               ELSE [pool EXCEPT !.pc = "loop", !.groups = Pages(poolN, BatchLength)]
    /\ UNCHANGED poolN

\* semaphoreChan <- struct{}{}; wg.Go(func() error { ... })
PoolLaunch ==
    /\ pool.pc = "loop"
    /\ SlotFree(pool.sem)
    /\ pool' = [pool EXCEPT !.sem = @ + 1, !.run = @ + 1, !.launched = @ + 1,
                            !.pc = IF pool.launched + 1 = pool.groups THEN "ret" ELSE "loop"]
    /\ UNCHANGED poolN

\* GetProductsFromQuery(gCtx, query) returns in one worker: with an error the
\* worker's function returns and its deferred <-semaphoreChan runs.
PoolQuery(o) ==
    /\ pool.run > 0
    /\ LET r == QueryOnce(username, password, IF pool.ctx THEN TransportFailure ELSE o)
       IN  pool' = IF r.err # NoError
                   THEN [pool EXCEPT !.run = @ - 1, !.exitErr = @ + 1,
                                     !.sem = ReleaseOnError(@)]
                   ELSE [pool EXCEPT !.run = @ - 1, !.lock = @ + 1]
    /\ UNCHANGED poolN

\* requestedProductsLock.Lock() in one worker
PoolLock ==
    /\ pool.lock > 0
    /\ pool.append = 0
    /\ pool' = [pool EXCEPT !.lock = @ - 1, !.append = @ + 1]
    /\ UNCHANGED poolN

\* The append and return nil, with the deferred Unlock and <-semaphoreChan;
\* the errgroup counts the worker as done (a nil return changes nothing else).
PoolAppend ==
    /\ pool.append > 0
    /\ pool' = [pool EXCEPT !.append = @ - 1, !.done = @ + 1, !.sem = @ - 1]
    /\ UNCHANGED poolN

\* errgroup: a worker's function has returned an error: the first one is
\* kept and cancels gCtx, and the worker is counted as done.
PoolDone ==
    /\ pool.exitErr > 0
    /\ pool' = [pool EXCEPT !.exitErr = @ - 1, !.done = @ + 1, !.ctx = TRUE]
    /\ UNCHANGED poolN

\* wg.Wait() returns, the function returns, close(semaphoreChan) runs.
PoolReturn ==
    /\ pool.pc = "ret"
    /\ pool.done = pool.launched
    /\ pool' = [pool EXCEPT !.pc = "done", !.closed = TRUE]
    /\ UNCHANGED poolN

\* ---------------------------------------------------------- specifications

vars == <<batchVars, clientVars, aggVars, filterVars, poolVars>>

\* The batcher on its own: every identifier list and batch length within the
\* bounds; the client and the aggregator stay as constructed.
InitBatch ==
    /\ productIDs \in SeqsUpTo(Ids, MaxLen)
    /\ length \in 1..MaxBatch
    /\ requestQuerys = <<>>
    /\ bpc = "input"
    /\ username = "user"
    /\ password = "secret"
    /\ tokens = Burst
    /\ refills = 0
    /\ requestsSent = 0
    /\ inv = [p \in Callers |-> IdleInvocation]
    /\ variant = "sequential"
    /\ products = <<>>
    /\ apc = "idle"
    /\ actx = FALSE
    /\ queryStrings = <<>>
    /\ idx = 0
    /\ productList = <<>>
    /\ aggRet = Return(NilValue, NoError)
    /\ started = <<>>
    /\ sem = 0
    /\ semClosed = FALSE
    /\ mutex = 0
    /\ workers = <<>>
    /\ groupErr = NoError
    /\ retList = Unread
    /\ catalog = <<>>
    /\ accessories = <<>>
    /\ fetchFails = "none"
    /\ fpc = "idle"
    /\ svcRet = Return(NilValue, NoError)
    /\ poolN = 0
    /\ pool = IdlePool

\* New(companyName, userName, password, language): any credentials, empty or
\* not; the limiter's bucket starts full.
InitClient ==
    /\ productIDs = <<>>
    /\ length = 1
    /\ requestQuerys = <<>>
    /\ bpc = "input"
    /\ username \in {"", "user"}
    /\ password \in {"", "secret"}
    /\ tokens = Burst
    /\ refills = 0
    /\ requestsSent = 0
    /\ inv = [p \in Callers |-> IdleInvocation]
    /\ variant = "sequential"
    /\ products = <<>>
    /\ apc = "idle"
    /\ actx = FALSE
    /\ queryStrings = <<>>
    /\ idx = 0
    /\ productList = <<>>
    /\ aggRet = Return(NilValue, NoError)
    /\ started = <<>>
    /\ sem = 0
    /\ semClosed = FALSE
    /\ mutex = 0
    /\ workers = <<>>
    /\ groupErr = NoError
    /\ retList = Unread
    /\ catalog = <<>>
    /\ accessories = <<>>
    /\ fetchFails = "none"
    /\ fpc = "idle"
    /\ svcRet = Return(NilValue, NoError)
    /\ poolN = 0
    /\ pool = IdlePool

\* A client as constructed by New, and one call of
\* GetProductAccessoriesFromList about to be made, in either variant.
InitAgg ==
    /\ productIDs = <<>>
    /\ length = 1
    /\ requestQuerys = <<>>
    /\ bpc = "input"
    /\ username \in {"", "user"}
    /\ password \in {"", "secret"}
    /\ tokens = Burst
    /\ refills = 0
    /\ requestsSent = 0
    /\ inv = [p \in Callers |-> IdleInvocation]
    /\ variant \in {"sequential", "concurrent"}
    /\ products \in AggInputs
    /\ apc = "idle"
    /\ actx = FALSE
    /\ queryStrings = <<>>
    /\ idx = 0
    /\ productList = <<>>
    /\ aggRet = Return(NilValue, NoError)
    /\ started = <<>>
    /\ sem = 0
    /\ semClosed = FALSE
    /\ mutex = 0
    /\ workers = <<>>
    /\ groupErr = NoError
    /\ retList = Unread
    /\ catalog = <<>>
    /\ accessories = <<>>
    /\ fetchFails = "none"
    /\ fpc = "idle"
    /\ svcRet = Return(NilValue, NoError)
    /\ poolN = 0
    /\ pool = IdlePool


NextBatch ==
    CallCreateQueryStrings /\ UNCHANGED clientVars /\ UNCHANGED aggVars /\ UNCHANGED <<filterVars, poolVars>>

SpecBatch == InitBatch /\ [][NextBatch]_vars

\* One caller at a time: every outcome of every attempt.
QueryCallers == {"c1"}

NextClient ==
    \/ \E p \in QueryCallers, k \in {"query", "types"} : Call(p, k) /\ UNCHANGED batchVars /\ UNCHANGED aggVars /\ UNCHANGED <<filterVars, poolVars>>
    \/ \E p \in QueryCallers : Cancel(p) /\ UNCHANGED batchVars /\ UNCHANGED aggVars /\ UNCHANGED <<filterVars, poolVars>>
    \/ \E p \in QueryCallers : LimiterWait(p) /\ UNCHANGED batchVars /\ UNCHANGED aggVars /\ UNCHANGED <<filterVars, poolVars>>
    \/ \E p \in QueryCallers, o \in Outcomes : Do(p, o) /\ UNCHANGED batchVars /\ UNCHANGED aggVars /\ UNCHANGED <<filterVars, poolVars>>
    \/ \E p \in QueryCallers : Sleep(p) /\ UNCHANGED batchVars /\ UNCHANGED aggVars /\ UNCHANGED <<filterVars, poolVars>>
    \/ Refill /\ UNCHANGED batchVars /\ UNCHANGED aggVars /\ UNCHANGED <<filterVars, poolVars>>

SpecClient == InitClient /\ [][NextClient]_vars

\* The outcomes the concurrent callers' attempts are given.
LimiterOutcomes ==
    {o \in Outcomes : o.status = 500 \/ (o.status = StatusOK /\ o.body.list = <<"X">>)}

NextLimiter ==
    \/ \E p \in Callers, k \in {"query", "types"} : Call(p, k) /\ UNCHANGED batchVars /\ UNCHANGED aggVars /\ UNCHANGED <<filterVars, poolVars>>
    \/ \E p \in Callers : Cancel(p) /\ UNCHANGED batchVars /\ UNCHANGED aggVars /\ UNCHANGED <<filterVars, poolVars>>
    \/ \E p \in Callers : LimiterWait(p) /\ UNCHANGED batchVars /\ UNCHANGED aggVars /\ UNCHANGED <<filterVars, poolVars>>
    \/ \E p \in Callers, o \in LimiterOutcomes : Do(p, o) /\ UNCHANGED batchVars /\ UNCHANGED aggVars /\ UNCHANGED <<filterVars, poolVars>>
    \/ \E p \in Callers : Sleep(p) /\ UNCHANGED batchVars /\ UNCHANGED aggVars /\ UNCHANGED <<filterVars, poolVars>>
    \/ Refill /\ UNCHANGED batchVars /\ UNCHANGED aggVars /\ UNCHANGED <<filterVars, poolVars>>

SpecLimiter == InitClient /\ [][NextLimiter]_vars

\* The outcomes the aggregated queries' attempts are given.
AggOutcomes == Outcomes

NextAgg ==
    \/ AggCall /\ UNCHANGED <<filterVars, poolVars>>
    \/ AggCancel /\ UNCHANGED <<filterVars, poolVars>>
    \/ SeqInvoke /\ UNCHANGED <<filterVars, poolVars>>
    \/ SeqCollect /\ UNCHANGED <<filterVars, poolVars>>
    \/ LimiterWait("c1") /\ UNCHANGED batchVars /\ UNCHANGED aggVars /\ UNCHANGED <<filterVars, poolVars>>
    \/ \E o \in AggOutcomes : Do("c1", o) /\ UNCHANGED batchVars /\ UNCHANGED aggVars /\ UNCHANGED <<filterVars, poolVars>>
    \/ Sleep("c1") /\ UNCHANGED batchVars /\ UNCHANGED aggVars /\ UNCHANGED <<filterVars, poolVars>>
    \/ Refill /\ UNCHANGED batchVars /\ UNCHANGED aggVars /\ UNCHANGED <<filterVars, poolVars>>
    \/ Launch /\ UNCHANGED <<filterVars, poolVars>>
    \/ \E w \in 1..MaxGroups, o \in AggOutcomes : WorkerQuery(w, o) /\ UNCHANGED <<filterVars, poolVars>>
    \/ \E w \in 1..MaxGroups : WorkerLock(w) /\ UNCHANGED <<filterVars, poolVars>>
    \/ \E w \in 1..MaxGroups : WorkerAppend(w) /\ UNCHANGED <<filterVars, poolVars>>
    \/ \E w \in 1..MaxGroups : WorkerDone(w) /\ UNCHANGED <<filterVars, poolVars>>
    \/ ReadProductList /\ UNCHANGED <<filterVars, poolVars>>
    \/ WaitReturn /\ UNCHANGED <<filterVars, poolVars>>

SpecAgg == InitAgg /\ [][NextAgg]_vars

\* GetServiceTypeAccessoriesOfProduct on every catalog and accessory list
\* within the bounds, with either fetch failing or none.
InitFilter ==
    /\ productIDs = <<>>
    /\ length = 1
    /\ requestQuerys = <<>>
    /\ bpc = "input"
    /\ username = "user"
    /\ password = "secret"
    /\ tokens = Burst
    /\ refills = 0
    /\ requestsSent = 0
    /\ inv = [p \in Callers |-> IdleInvocation]
    /\ variant = "sequential"
    /\ products = <<>>
    /\ apc = "idle"
    /\ actx = FALSE
    /\ queryStrings = <<>>
    /\ idx = 0
    /\ productList = <<>>
    /\ aggRet = Return(NilValue, NoError)
    /\ started = <<>>
    /\ sem = 0
    /\ semClosed = FALSE
    /\ mutex = 0
    /\ workers = <<>>
    /\ groupErr = NoError
    /\ retList = Unread
    /\ catalog \in SeqsUpTo(ProductTypeRecords, MaxTypes)
    /\ accessories \in SeqsUpTo(ProductRecords, MaxAccessories)
    /\ fetchFails \in {"none", "types", "accessories"}
    /\ fpc = "idle"
    /\ svcRet = Return(NilValue, NoError)
    /\ poolN = 0
    /\ pool = IdlePool

NextFilter ==
    CallGetServiceTypeAccessories
        /\ UNCHANGED batchVars /\ UNCHANGED clientVars /\ UNCHANGED aggVars
        /\ UNCHANGED poolVars

SpecFilter == InitFilter /\ [][NextFilter]_vars

\* The batcher on every input within the bounds, or one call of the
\* sequential GetProductAccessoriesFromList on a client with credentials.
InitOrder ==
    /\ \/ /\ productIDs \in SeqsUpTo(Ids, MaxLen)
          /\ length \in 1..MaxBatch
          /\ products = <<>>
       \/ /\ productIDs = <<>>
          /\ length = 1
          /\ products \in AggInputs
    /\ requestQuerys = <<>>
    /\ bpc = "input"
    /\ username = "user"
    /\ password = "secret"
    /\ tokens = Burst
    /\ refills = 0
    /\ requestsSent = 0
    /\ inv = [p \in Callers |-> IdleInvocation]
    /\ variant = "sequential"
    /\ apc = "idle"
    /\ actx = FALSE
    /\ queryStrings = <<>>
    /\ idx = 0
    /\ productList = <<>>
    /\ aggRet = Return(NilValue, NoError)
    /\ started = <<>>
    /\ sem = 0
    /\ semClosed = FALSE
    /\ mutex = 0
    /\ workers = <<>>
    /\ groupErr = NoError
    /\ retList = Unread
    /\ catalog = <<>>
    /\ accessories = <<>>
    /\ fetchFails = "none"
    /\ fpc = "idle"
    /\ svcRet = Return(NilValue, NoError)
    /\ poolN = 0
    /\ pool = IdlePool

\* The batcher is called only on the batcher's inputs, the aggregator only on
\* the aggregator's.
NextOrder ==
    \/ products = <<>> /\ CallCreateQueryStrings /\ UNCHANGED clientVars /\ UNCHANGED aggVars /\ UNCHANGED <<filterVars, poolVars>>
    \/ products # <<>> /\ AggCall /\ UNCHANGED <<filterVars, poolVars>>
    \/ AggCancel /\ UNCHANGED <<filterVars, poolVars>>
    \/ SeqInvoke /\ UNCHANGED <<filterVars, poolVars>>
    \/ SeqCollect /\ UNCHANGED <<filterVars, poolVars>>
    \/ LimiterWait("c1") /\ UNCHANGED batchVars /\ UNCHANGED aggVars /\ UNCHANGED <<filterVars, poolVars>>
    \/ \E o \in AggOutcomes : Do("c1", o) /\ UNCHANGED batchVars /\ UNCHANGED aggVars /\ UNCHANGED <<filterVars, poolVars>>
    \/ Sleep("c1") /\ UNCHANGED batchVars /\ UNCHANGED aggVars /\ UNCHANGED <<filterVars, poolVars>>
    \/ Refill /\ UNCHANGED batchVars /\ UNCHANGED aggVars /\ UNCHANGED <<filterVars, poolVars>>

SpecOrder == InitOrder /\ [][NextOrder]_vars

\* One counted call of the concurrent GetProductAccessoriesFromList on a
\* client with credentials.
InitPool ==
    /\ productIDs = <<>>
    /\ length = 1
    /\ requestQuerys = <<>>
    /\ bpc = "input"
    /\ username = "user"
    /\ password = "secret"
    /\ tokens = Burst
    /\ refills = 0
    /\ requestsSent = 0
    /\ inv = [p \in Callers |-> IdleInvocation]
    /\ variant = "concurrent"
    /\ products = <<>>
    /\ apc = "idle"
    /\ actx = FALSE
    /\ queryStrings = <<>>
    /\ idx = 0
    /\ productList = <<>>
    /\ aggRet = Return(NilValue, NoError)
    /\ started = <<>>
    /\ sem = 0
    /\ semClosed = FALSE
    /\ mutex = 0
    /\ workers = <<>>
    /\ groupErr = NoError
    /\ retList = Unread
    /\ catalog = <<>>
    /\ accessories = <<>>
    /\ fetchFails = "none"
    /\ fpc = "idle"
    /\ svcRet = Return(NilValue, NoError)
    /\ poolN \in PoolLengths
    /\ pool = IdlePool

poolRest == <<batchVars, clientVars, aggVars, filterVars>>

NextPool ==
    \/ PoolCall /\ UNCHANGED poolRest
    \/ PoolLaunch /\ UNCHANGED poolRest
    \/ \E o \in PoolOutcomes : PoolQuery(o) /\ UNCHANGED poolRest
    \/ PoolLock /\ UNCHANGED poolRest
    \/ PoolAppend /\ UNCHANGED poolRest
    \/ PoolDone /\ UNCHANGED poolRest
    \/ PoolReturn /\ UNCHANGED poolRest

SpecPool == InitPool /\ [][NextPool]_vars

\* The counted call where every step that can be taken is taken in the end:
\* every GetProductsFromQuery returns and every goroutine that can run does.
SpecPoolFair == SpecPool /\ WF_vars(NextPool)

\* ------------------------------------------------------------------ claims

\* Number of occurrences of x in sequence s.
Occurrences(x, s) == Cardinality({k \in 1..Len(s) : s[k] = x})

\* Number of occurrences of x among the identifiers of all groups.
RECURSIVE OccurrencesInGroups(_, _)
OccurrencesInGroups(x, qs) ==
    IF Len(qs) = 0 THEN 0
    ELSE Occurrences(x, IdsOfQuery(Head(qs))) + OccurrencesInGroups(x, Tail(qs))

\* ceil(n / len) for len > 0.
CeilDiv(n, len) == (n + len - 1) \div len

\* C1: for every identifier list of length n and batch length L > 0,
\* createQueryStrings returns exactly ceil(n/L) groups, no group holds more
\* than L identifiers, and every input occurrence lies in exactly one group
\* (an empty input yields an empty sequence).
C1_BatchPartition ==
    bpc = "done" =>
        /\ Len(requestQuerys) = CeilDiv(Len(productIDs), length)
        /\ \A g \in 1..Len(requestQuerys) :
              /\ Len(IdsOfQuery(requestQuerys[g])) <= length
              /\ Len(IdsOfQuery(requestQuerys[g])) >= 1
        /\ \A x \in Ids :
              OccurrencesInGroups(x, requestQuerys) = Occurrences(x, productIDs)
        /\ (productIDs = <<>> => requestQuerys = <<>>)

\* C1 witness: a list that does not divide evenly has been batched into
\* several groups, the remainder group among them.
C1_Witness ==
    /\ bpc = "done"
    /\ Len(productIDs) = 3
    /\ length = 2
    /\ Len(requestQuerys) = 2

\* The executor invocations of GetProductsFromQuery that got past the
\* credential check (retries := 3 has run).
InLoop(i) ==
    i.kind = "query" /\ i.pc # "idle" /\ i.ret.err # MissingCredentials

\* C2: GetProductAccessoriesFromList called with an empty identifier list
\* returns an empty result and no error, without acquiring a limiter token,
\* starting a worker or sending a request.
C2_EmptyListNoWork ==
    products = <<>> =>
        /\ requestsSent = 0
        /\ tokens = Burst
        /\ \A p \in Callers : inv[p].pc = "idle"
        /\ workers = <<>> /\ sem = 0 /\ started = <<>>
        /\ apc \in {"idle", "done"}
        /\ apc = "done" => (aggRet.err = NoError /\ aggRet.value.list = <<>>)

\* C2 witness: the call with an empty list has returned.
C2_Witness == products = <<>> /\ apc = "done" /\ variant = "concurrent"

\* C3: in GetProductsFromQuery a 404 on any attempt ends the invocation at once
\* with an empty product container and no error: no further attempt, no
\* backoff wait after it, and no decrement of the retry counter for it.
C3_NotFoundIsEmpty ==
    \A p \in Callers :
        (inv[p].kind = "query" /\ inv[p].response.status = StatusNotFound) =>
            /\ inv[p].pc = "done"
            /\ inv[p].ret = Return(ValueOf(<<>>), NoError)
            /\ inv[p].retries = InitialRetries - inv[p].failures
            /\ inv[p].sleeps = inv[p].failures
            /\ inv[p].sent = inv[p].failures + 1

\* C3 witness: a 404 on the third attempt, after two transient failures.
C3_Witness ==
    \E p \in Callers :
        /\ inv[p].kind = "query" /\ inv[p].response.status = StatusNotFound
        /\ inv[p].failures = 2 /\ inv[p].pc = "done"

\* C4 as claimed: three attempts none of which yields 200 or 404 make the
\* invocation fail with UnexpectedStatusCode carrying the last HTTP status
\* observed during the invocation.
C4_Claimed ==
    \A p \in Callers :
        (InLoop(inv[p]) /\ inv[p].pc = "done" /\ inv[p].failures = InitialRetries) =>
            inv[p].ret.err = [type |-> "UnexpectedStatusCode", status |-> inv[p].lastStatus]

\* C4 as amended: after three failed attempts the invocation returns no
\* container and fails with UnexpectedStatusCode carrying the third attempt's
\* status when that attempt returned a response, and with the third attempt's
\* transport error when it returned none.
C4_ExhaustedError ==
    \A p \in Callers :
        (InLoop(inv[p]) /\ inv[p].pc = "done" /\ inv[p].failures = InitialRetries) =>
            /\ inv[p].ret.value = NilValue
            /\ inv[p].err = NoError =>
                  /\ inv[p].ret.err.type = "UnexpectedStatusCode"
                  /\ inv[p].ret.err.status = inv[p].lastStatus
                  /\ inv[p].ret.err.status \notin {StatusOK, StatusNotFound}
            /\ inv[p].err # NoError => inv[p].ret.err = TransportError

\* C4 witness: three attempts answered 500, 500 (or 503), 503: the error
\* carries 503.
C4_Witness ==
    \E p \in Callers :
        /\ InLoop(inv[p]) /\ inv[p].pc = "done" /\ inv[p].failures = InitialRetries
        /\ inv[p].sent = 3 /\ inv[p].opened = 3
        /\ inv[p].ret.err = [type |-> "UnexpectedStatusCode", status |-> 503]

\* C5: one or two transient failures followed by a 200 with a decodable body
\* give the decoded container and no error, after at most 3 attempts.
C5_RecoversAfterTransient ==
    \A p \in Callers :
        (/\ inv[p].kind = "query" /\ inv[p].failures \in {1, 2}
         /\ inv[p].response.status = StatusOK /\ inv[p].response.body.valid) =>
            /\ inv[p].pc = "done"
            /\ inv[p].ret = Return(ValueOf(inv[p].response.body.list), NoError)
            /\ inv[p].sent = inv[p].failures + 1
            /\ inv[p].sent <= 3

\* C5 witness: a transport error, a 500, then a 200 carrying two products.
C5_Witness ==
    \E p \in Callers :
        /\ inv[p].kind = "query" /\ inv[p].failures = 2 /\ inv[p].opened = 2
        /\ inv[p].lastStatus = StatusOK
        /\ inv[p].ret = Return(ValueOf(<<"X", "Y">>), NoError)

\* C6: with an empty username or password GetProductsFromQuery and
\* GetAllProductTypes return an error before any network I/O: no request is
\* sent and no limiter token is acquired.
C6_MissingCredentialsNoIO ==
    (username = "" \/ password = "") =>
        /\ requestsSent = 0
        /\ tokens = Burst
        /\ \A p \in Callers :
              /\ inv[p].pc \in {"idle", "done"}
              /\ inv[p].pc = "done" =>
                    /\ inv[p].ret = Return(NilValue, MissingCredentials)
                    /\ inv[p].sent = 0 /\ inv[p].acquired = 0

\* C6 witness: GetAllProductTypes has returned on a client without a password.
C6_Witness ==
    \E p \in Callers :
        /\ username # "" /\ password = ""
        /\ inv[p].kind = "types" /\ inv[p].pc = "done"

\* C7: one GetProductsFromQuery invocation sends at most 3 requests: its retry
\* counter starts at 3, loses exactly one per transient failure, stays at or
\* above 0, and nothing is waited for or sent once it is 0.
C7_AtMostThreeRequests ==
    \A p \in Callers :
        InLoop(inv[p]) =>
            /\ inv[p].sent <= 3
            /\ inv[p].retries \in 0..InitialRetries
            /\ inv[p].retries = InitialRetries - inv[p].failures
            /\ inv[p].pc \in {"wait", "do"} => inv[p].retries > 0
            /\ inv[p].sent <= inv[p].failures + 1

\* C7 witness: three requests sent, the counter at 0.
C7_Witness ==
    \E p \in Callers :
        InLoop(inv[p]) /\ inv[p].sent = 3 /\ inv[p].retries = 0 /\ inv[p].pc = "done"

\* C8: whenever GetProductAccessoriesFromList returns an error, in either
\* variant, the collection it returns holds no records.
C8_NoPartialResult ==
    (apc = "done" /\ aggRet.err # NoError) => aggRet.value.list = <<>>

\* C9: under every interleaving of concurrent invocations each request is sent
\* only after its invocation took a token of the shared bucket (capacity 6,
\* full at first); the token count stays within 0..6, the requests sent never
\* exceed 6 plus the tokens refilled, and 12 requests need 6 refills.
C9_RateBound ==
    /\ tokens \in 0..Burst
    /\ \A p \in Callers : inv[p].sent <= inv[p].acquired
    /\ requestsSent + tokens <= Burst + refills
    /\ requestsSent <= Burst + refills
    /\ requestsSent >= 2 * Burst => refills >= Burst

\* C9 witness: 12 requests have been sent, after 6 refills, and the bucket is
\* empty.
C9_Witness == requestsSent = 2 * Burst /\ refills = Burst /\ tokens = 0

\* C10: every response body GetProductsFromQuery received has been closed by
\* the time the invocation returns, on every exit path.
C10_BodiesClosed ==
    \A p \in Callers :
        (inv[p].kind = "query" /\ inv[p].pc = "done") => inv[p].closed = inv[p].opened

\* The sequential aggregator's executor invocation has returned an error.
SeqFailed ==
    /\ variant = "sequential"
    /\ inv["c1"].kind = "query" /\ inv["c1"].pc = "done"
    /\ inv["c1"].ret.err # NoError

\* C11: the sequential GetProductAccessoriesFromList hands the groups to
\* GetProductsFromQuery one at a time in the order the batcher returned them;
\* once an invocation has returned an error (a limiter timeout included) no
\* later group is invoked, no token is acquired and no request is sent, and
\* the call returns that error.
C11_StopAtFirstError ==
    /\ [](variant = "sequential" =>
            /\ Len(started) <= Len(queryStrings)
            /\ started = SubSeq(queryStrings, 1, Len(started))
            /\ apc = "loop" => Len(started) = idx - 1
            /\ apc = "calling" => Len(started) = idx
            /\ (apc = "done" /\ aggRet.err # NoError) =>
                  /\ SeqFailed
                  /\ aggRet = Return(NilValue, inv["c1"].ret.err)
                  /\ Len(started) = idx)
    /\ [][SeqFailed =>
            /\ started' = started
            /\ inv' = inv
            /\ requestsSent' = requestsSent
            /\ tokens' >= tokens
            /\ apc' # "loop"]_vars

\* C11 witness: the first of two groups failed at the limiter with the
\* context done, and the call has returned that error with the second group
\* never started.
C11_Witness ==
    /\ variant = "sequential" /\ apc = "done"
    /\ Len(queryStrings) = 2 /\ Len(started) = 1
    /\ aggRet = Return(NilValue, LimiterTimeout)

\* The query of some group of the concurrent aggregator has returned an error.
SomeGroupFailed == \E w \in DOMAIN workers : workers[w].ret.err # NoError

\* C12: in the concurrent GetProductAccessoriesFromList, once one group's
\* query has returned an error no step starts the worker of a further group.
C12_NoStartAfterFailure ==
    [][SomeGroupFailed =>
          \A w \in DOMAIN workers :
              workers[w].pc = "none" => workers'[w].pc = "none"]_vars

\* The workers of the concurrent aggregator that are between Lock and Unlock.
Appending == {w \in DOMAIN workers : workers[w].pc = "append"}

\* C13: in the concurrent GetProductAccessoriesFromList at most one worker at
\* a time is between Lock and Unlock, the shared collection changes only in a
\* step of the worker that holds the mutex, and a worker takes the mutex once
\* and releases it once, before it ends.
C13_MutualExclusion ==
    /\ [](/\ Cardinality(Appending) <= 1
          /\ mutex # 0 => Appending = {mutex}
          /\ mutex = 0 => Appending = {})
    /\ [][variant = "concurrent" =>
            /\ productList' # productList =>
                  /\ mutex # 0 /\ workers[mutex].pc = "append"
                  /\ workers'[mutex].pc = "exit" /\ mutex' = 0
            /\ \A w \in DOMAIN workers :
                  /\ (mutex # w /\ mutex' = w) =>
                        (mutex = 0 /\ workers[w].pc = "lock" /\ workers'[w].pc = "append")
                  /\ (mutex = w /\ mutex' # w) =>
                        (mutex' = 0 /\ workers[w].pc = "append" /\ workers'[w].pc = "exit")
                  /\ workers[w].pc \in {"exit", "done"} => mutex' # w]_vars

\* C13 witness: one worker holds the mutex and is about to append while the
\* other has its records and waits for the mutex.
C13_Witness ==
    /\ variant = "concurrent"
    /\ \E w, v \in DOMAIN workers :
          /\ workers[w].pc = "append" /\ mutex = w
          /\ workers[v].pc = "lock" /\ workers[v].ret.value.list # <<>>

\* C14: when the concurrent GetProductAccessoriesFromList has returned, with
\* or without an error, every group's worker was started and is done, every
\* semaphore slot has been given back and the mutex is free; the semaphore
\* channel is closed only at that return.
C14_NoWorkerLeftAtReturn ==
    /\ (variant = "concurrent" /\ apc = "done") =>
          /\ \A w \in DOMAIN workers : workers[w].pc = "done"
          /\ sem = 0
          /\ mutex = 0
          /\ Len(started) = Len(queryStrings)
          /\ products # <<>> => semClosed
    /\ semClosed => apc = "done"

\* C14 witness: the call has returned an error after two workers, one that
\* failed and one that appended its records.
C14_Witness ==
    /\ variant = "concurrent" /\ apc = "done" /\ semClosed
    /\ aggRet.err # NoError
    /\ \E w, v \in DOMAIN workers :
          workers[w].ret.err # NoError /\ workers[v].ret.value.list # <<>>

\* An invocation is inside its retry loop with its context done.
CancelledInLoop(i) == i.ctxDone /\ i.pc \in {"wait", "do", "sleep"}

\* C15: once the context of a GetProductsFromQuery invocation is done, no
\* step of that invocation sends a request or takes a token, wherever in the
\* retry loop it was cancelled; an iteration that begins after that fails at
\* limiter.Wait and the invocation returns the limiter-timeout error.
C15_NoSendAfterCancel ==
    [][\A p \in Callers :
          CancelledInLoop(inv[p]) =>
              /\ inv'[p].sent = inv[p].sent
              /\ inv'[p].acquired = inv[p].acquired
              /\ requestsSent' = requestsSent
              /\ tokens' >= tokens
              /\ (inv[p].pc = "wait" /\ inv'[p] # inv[p]) =>
                    /\ inv'[p].pc = "done"
                    /\ inv'[p].ret = Return(NilValue, LimiterTimeout)]_vars

\* C15 witness: the context was cancelled between the second iteration's
\* limiter.Wait and its send: one request was sent, the second attempt failed
\* unsent, and the third iteration ended at the limiter.
C15_Witness ==
    /\ inv["c1"].kind = "query" /\ inv["c1"].ctxDone /\ inv["c1"].pc = "done"
    /\ inv["c1"].sent = 1 /\ inv["c1"].acquired = 2 /\ inv["c1"].failures = 2
    /\ inv["c1"].ret = Return(NilValue, LimiterTimeout)

\* The catalog holds a type of group "SSP" with the id.
IsServiceType(id) ==
    \E k \in DOMAIN catalog : catalog[k].ID = id /\ catalog[k].group = "SSP"

\* C16: GetServiceTypeAccessoriesOfProduct returns only accessory records
\* whose type id is not empty and is the id of a catalog type of group "SSP",
\* at most one record per Puid; when no accessory has such a type the result
\* is empty, and when a fetch fails nothing is returned with the error.
C16_ServiceAccessoriesOnly ==
    fpc = "done" =>
        LET result == svcRet.value.list
        IN  /\ svcRet.err = NoError <=> fetchFails = "none"
            /\ svcRet.err # NoError => svcRet.value = NilValue
            /\ \A k \in DOMAIN result :
                  /\ \E j \in DOMAIN accessories : accessories[j] = result[k]
                  /\ result[k].ProductTypeID # ""
                  /\ IsServiceType(result[k].ProductTypeID)
            /\ \A k, j \in DOMAIN result : result[k].Puid = result[j].Puid => k = j
            /\ (\A j \in DOMAIN accessories : ~IsServiceType(accessories[j].ProductTypeID))
                  => result = <<>>

\* C16 witness: of two accessories with different Puids, one of a type of
\* group "SSP" and one of a type of group "HW", only the first is returned.
C16_Witness ==
    /\ fpc = "done" /\ svcRet.err = NoError
    /\ Len(accessories) = 2 /\ Len(svcRet.value.list) = 1
    /\ accessories[1].Puid # accessories[2].Puid
    /\ \E k \in DOMAIN catalog :
          catalog[k].group = "HW" /\ catalog[k].ID # ""
             /\ \E j \in DOMAIN accessories : accessories[j].ProductTypeID = catalog[k].ID

\* The smaller of two numbers.
Min(a, b) == IF a < b THEN a ELSE b

\* The identifiers of the g-th chunk from the end when ids is cut, from its
\* first identifier on, into chunks of len identifiers.
ChunkFromEnd(ids, len, g) ==
    LET i == CeilDiv(Len(ids), len) - g + 1
    IN  SubSeq(ids, (i - 1) * len + 1, Min(i * len, Len(ids)))

\* The groups are the chunks of ids, of len identifiers each, last chunk first.
TailFirst(groups, ids, len) ==
    /\ Len(groups) = CeilDiv(Len(ids), len)
    /\ \A g \in 1..Len(groups) : IdsOfQuery(groups[g]) = ChunkFromEnd(ids, len, g)
    /\ groups # <<>> =>
          Len(IdsOfQuery(groups[1])) =
              IF Len(ids) % len = 0 THEN len ELSE Len(ids) % len

\* C17: createQueryStrings returns the chunks of the input last chunk first:
\* the first group holds the last identifiers (n mod L of them when L does not
\* divide n, L otherwise), each following group is the chunk just before, and
\* identifiers keep their input order inside a group; the first query the
\* sequential aggregator makes is the one of the remainder chunk.
C17_TailFirst ==
    /\ bpc = "done" => TailFirst(requestQuerys, productIDs, length)
    /\ apc # "idle" /\ products # <<>> =>
          /\ TailFirst(queryStrings, products, BatchLength)
          /\ started # <<>> =>
                IdsOfQuery(started[1]) = ChunkFromEnd(products, BatchLength, 1)

\* C17 witness: of 51 identifiers the batcher returned the 51st alone as the
\* first group and the first 50 as the second, and the sequential aggregator
\* has queried them in that order.
C17_Witness ==
    /\ variant = "sequential" /\ Len(products) = BatchLength + 1
    /\ Len(queryStrings) = 2 /\ started = queryStrings
    /\ IdsOfQuery(queryStrings[1]) = <<products[BatchLength + 1]>>
    /\ IdsOfQuery(queryStrings[2]) = SubSeq(products, 1, BatchLength)
    /\ products[1] # products[BatchLength + 1]

\* The counted workers whose function has started and has not returned.
InFlight == pool.run + pool.lock + pool.append

\* C18: in the concurrent GetProductAccessoriesFromList at most 20 workers
\* are in flight in every state: the semaphore holds one slot for each worker
\* whose function has started and not returned, taken before the worker
\* starts and given back once at its end, on success and on error.
C18_AtMostTwentyInFlight ==
    /\ InFlight <= SemCap
    /\ pool.sem = InFlight
    /\ pool.append <= 1
    /\ pool.launched = InFlight + pool.exitErr + pool.done
    /\ pool.launched <= pool.groups
    /\ pool.pc = "done" => (pool.sem = 0 /\ pool.done = pool.groups)

\* C18 witness: 20 workers are in flight, one of them holding the mutex, and
\* the launch loop waits for a slot with a group left to start.
C18_Witness ==
    /\ pool.pc = "loop" /\ pool.groups > SemCap
    /\ pool.launched = SemCap /\ InFlight = SemCap /\ pool.sem = SemCap
    /\ pool.append = 1 /\ pool.lock > 0 /\ pool.run > 0

\* C20: the concurrent GetProductAccessoriesFromList terminates: when every
\* GetProductsFromQuery returns and every goroutine that can run does, the
\* call returns in the end, for more groups than the semaphore has slots as
\* for fewer and for every mix of successes and failures; in particular a
\* launch loop that waits for a slot gets one.
C20_Terminates ==
    /\ <>(pool.pc = "done")
    /\ (pool.pc = "loop" /\ ~SlotFree(pool.sem)) ~> SlotFree(pool.sem)

\* C20 witness: a call with more groups than slots has returned after a
\* failure, every group's worker started and done.
C20_Witness ==
    /\ pool.pc = "done" /\ pool.groups > SemCap
    /\ pool.ctx /\ pool.done = pool.groups /\ pool.closed

\* The product records a response can carry.
Records == {"X", "Y"}

\* Number of occurrences of x among the records the workers 1..w got.
RECURSIVE OccurrencesInWorkers(_, _)
OccurrencesInWorkers(x, w) ==
    IF w = 0 THEN 0
    ELSE Occurrences(x, workers[w].ret.value.list) + OccurrencesInWorkers(x, w - 1)

\* C19: when every group's query succeeds, the collection
\* GetProductAccessoriesFromList returns holds each record exactly as often
\* as the groups' results do: in the concurrent variant under every
\* interleaving, and in the sequential variant with each group's records put
\* after those of the groups before it.
C19_UnionOfGroups ==
    /\ []((variant = "concurrent" /\ apc = "done" /\ aggRet.err = NoError) =>
             \A x \in Records :
                 Occurrences(x, aggRet.value.list) = OccurrencesInWorkers(x, Len(workers)))
    /\ [][(/\ variant = "sequential" /\ apc = "calling" /\ apc' # "calling"
           /\ inv["c1"].ret.err = NoError) =>
              /\ productList' = productList \o inv["c1"].ret.value.list
              /\ apc' = "done" => aggRet' = Return(ValueOf(productList'), NoError)]_vars
====
